---------------------------- MODULE Spec2Model ----------------------------
(***************************************************************************)
(* ProgressHelper (src/src/progress.py): a range [min, max] of an overall  *)
(* progress scale with a local rate in [0, 1] and an optional callback.    *)
(*                                                                         *)
(* Numbers are exact rationals <<n, d>> (d > 0, lowest terms); Python's    *)
(* binary floating-point rounding is not modelled.                         *)
(***************************************************************************)
EXTENDS Integers, Sequences, FiniteSets, TLC

(***************************************************************************)
(* heap   the ProgressHelper objects, in the order of their creation; each *)
(*        holds _min, _max, _rate, _func and, for the properties only, the *)
(*        index of the range it was derived from (0 for the root)          *)
(* pool   the invocations of the callback made by the most recent call, as *)
(*        the tests record them and empty the record between calls         *)
(* it     the iterator the most recent split returned: the (low, high)     *)
(*        pairs it still has to turn into sub-ranges, and, for the         *)
(*        properties only, its weights and the ranges it has yielded       *)
(* gen    the generator the most recent seq returned: its arguments, its   *)
(*        position, its split iterator and, for the properties only, the   *)
(*        pairs it handed over and the notifications it made, in order     *)
(* scope  the with block the caller is in                                  *)
(* last   the most recent call: its name, the error it raised, the range   *)
(*        it returned                                                      *)
(***************************************************************************)
VARIABLES heap, pool, it, gen, scope, last

vars == <<heap, pool, it, gen, scope, last>>

(***************************************************************************)
(* Bounds of the model.                                                    *)
(***************************************************************************)
MaxRanges == 4
MaxItems == 3
MaxSubs == 2

(***************************************************************************)
(* Exact rational arithmetic.                                              *)
(***************************************************************************)
Abs(n) == IF n < 0 THEN -n ELSE n

RECURSIVE GCD(_, _)
GCD(a, b) == IF b = 0 THEN a ELSE GCD(b, a % b)

Norm(n, d) ==
    LET s == IF d < 0 THEN -1 ELSE 1
        g == GCD(Abs(n), Abs(d))
    IN  <<(s * n) \div g, (s * d) \div g>>

R(n) == <<n, 1>>
Frac(n, d) == Norm(n, d)
RAdd(x, y) == Norm(x[1] * y[2] + y[1] * x[2], x[2] * y[2])
RSub(x, y) == Norm(x[1] * y[2] - y[1] * x[2], x[2] * y[2])
RMul(x, y) == Norm(x[1] * y[1], x[2] * y[2])
RLt(x, y) == x[1] * y[2] < y[1] * x[2]
RLe(x, y) == x[1] * y[2] <= y[1] * x[2]

Zero == R(0)
One == R(1)

Min2(x, y) == IF x <= y THEN x ELSE y

(***************************************************************************)
(* Inputs the callers draw from.                                           *)
(***************************************************************************)
None == "None"
Funcs == {None, "f"}
NoExtra == [args |-> <<>>, kwargs |-> <<>>]
Extras == {NoExtra, [args |-> <<"a">>, kwargs |-> <<<<"msg", "alpha">>>>]}
Ends == {<<R(0), R(100)>>, <<R(-100), R(100)>>, <<R(10), R(10)>>, <<R(100), R(0)>>}
Rates == {Frac(-1, 2), Zero, Frac(1, 2), One, Frac(3, 2)}
SubArgs ==
    {<<Zero, Frac(1, 2)>>, <<Frac(1, 2), One>>, <<Frac(1, 2), Frac(1, 2)>>,
     <<Frac(1, 2), Zero>>, <<Frac(-1, 2), One>>, <<Zero, Frac(3, 2)>>}
IntV(n) == [isList |-> FALSE, n |-> n, w |-> <<>>]
ListV(w) == [isList |-> TRUE, n |-> 0, w |-> w]
SplitArgs ==
    {IntV(n) : n \in -1..MaxItems} \cup
    {ListV(w) : w \in {<<>>, <<1, 3, 1>>, <<1, 0, 1>>, <<0>>, <<-1, -1>>, <<2, -1>>}}
TreeSubs == {<<Frac(1, 2), One>>}
TreeSplits == {ListV(<<1, 3>>)}
TreeItems == {<<"a">>, <<"a", "b">>}
Items == {SubSeq(<<"a", "b", "c", "d", "e", "f">>, 1, k) : k \in 0..MaxItems}

(***************************************************************************)
(* ProgressHelper.__init__                                                 *)
(***************************************************************************)
InitOk(min, max) == RLt(min, max)

ProgressHelper(min, max, func, parent) ==
    [min |-> min, max |-> max, func |-> func, rate |-> Zero, parent |-> parent]

(***************************************************************************)
(* ProgressHelper._pos, _notify, set                                       *)
(***************************************************************************)
RateOk(rate) == RLe(Zero, rate) /\ RLe(rate, One)

\* faulty variant: the offset of the range is forgotten
_pos_mut(p, rate) == RMul(RSub(p.max, p.min), rate)

_pos(p, rate) == RAdd(RMul(RSub(p.max, p.min), rate), p.min)

Invocation(p, rate, extra) == [func |-> p.func, pos |-> _pos(p, rate), extra |-> extra]

\* faulty variant: the extra arguments are not forwarded
_notify_mut(pl, p, rate, extra) ==
    IF p.func # None THEN Append(pl, Invocation(p, rate, NoExtra)) ELSE pl

_notify(pl, p, rate, extra) ==
    IF p.func # None THEN Append(pl, Invocation(p, rate, extra)) ELSE pl

\* faulty variant: the rate is also written to the range this one was derived from
SetRate_mut(h, i, rate) ==
    IF h[i].parent # 0 THEN [h EXCEPT ![i].rate = rate, ![h[i].parent].rate = rate]
                       ELSE [h EXCEPT ![i].rate = rate]

SetRate(h, i, rate) == [h EXCEPT ![i].rate = rate]

DoneRate == One

(***************************************************************************)
(* ProgressHelper.sub                                                      *)
(***************************************************************************)
SubOk(low, high) == RLe(Zero, low) /\ RLt(low, high) /\ RLe(high, One)

SubFunc(p) == p.func

\* faulty variant: the new range inherits the rate of the range it is derived from
SubRange_mut(p, i, low, high) ==
    [ProgressHelper(_pos(p, low), _pos(p, high), SubFunc(p), i) EXCEPT !.rate = p.rate]

SubRange(p, i, low, high) == ProgressHelper(_pos(p, low), _pos(p, high), SubFunc(p), i)

\* sub(low, high) on range i of heap h: the new heap, or an AssertionError
\* from sub's own assertion or from the constructor's.
SubResult(h, i, low, high) ==
    IF SubOk(low, high) /\ InitOk(_pos(h[i], low), _pos(h[i], high))
    THEN [err |-> "none", h |-> Append(h, SubRange(h[i], i, low, high)), ret |-> Len(h) + 1]
    ELSE [err |-> "AssertionError", h |-> h, ret |-> 0]

(***************************************************************************)
(* ProgressHelper.split                                                    *)
(***************************************************************************)
RECURSIVE sum(_)
sum(w) == IF w = <<>> THEN 0 ELSE w[1] + sum(Tail(w))

\* faulty variant: the weights are not accumulated
accumulate_mut(w) == w

accumulate(w) == [i \in 1..Len(w) |-> sum(SubSeq(w, 1, i))]

zip(a, b) == [i \in 1..Min2(Len(a), Len(b)) |-> <<a[i], b[i]>>]

ReturnsSelf(v) == ~v.isList /\ v.n = 1

Weights(v) == IF v.isList THEN v.w ELSE [i \in 1..v.n |-> 1]

DivFails(w) == w # <<>> /\ sum(w) = 0

SplitB(w) == [i \in 1..Len(w) |-> Frac(accumulate(w)[i], sum(w))]

SplitA(w) == <<Zero>> \o SubSeq(SplitB(w), 1, Len(w) - 1)

NoIter == [live |-> FALSE, owner |-> 0, selfLeft |-> FALSE, rs |-> <<>>, out |-> <<>>,
           w |-> <<>>, failed |-> FALSE]

\* The iterator split(v) returns on range i.
SplitIter(i, v) ==
    IF ReturnsSelf(v)
    THEN [NoIter EXCEPT !.live = TRUE, !.owner = i, !.selfLeft = TRUE, !.w = <<1>>]
    ELSE [NoIter EXCEPT !.live = TRUE, !.owner = i, !.w = Weights(v),
                        !.rs = zip(SplitA(Weights(v)), SplitB(Weights(v)))]

SplitErr(v) == IF ~ReturnsSelf(v) /\ DivFails(Weights(v)) THEN "ZeroDivisionError" ELSE "none"

IterDone(itr) == ~itr.selfLeft /\ itr.rs = <<>>

\* One next() on a split iterator.
IterStep(h, itr) ==
    IF itr.selfLeft
    THEN [res |-> "yield", h |-> h, ret |-> itr.owner,
          itr |-> [itr EXCEPT !.selfLeft = FALSE, !.out = Append(@, itr.owner)]]
    ELSE IF itr.rs = <<>>
    THEN [res |-> "StopIteration", h |-> h, ret |-> 0, itr |-> itr]
    ELSE LET r == SubResult(h, itr.owner, itr.rs[1][1], itr.rs[1][2])
         IN  IF r.err = "none"
             THEN [res |-> "yield", h |-> r.h, ret |-> r.ret,
                   itr |-> [itr EXCEPT !.rs = Tail(@), !.out = Append(@, r.ret)]]
             ELSE [res |-> r.err, h |-> h, ret |-> 0,
                   itr |-> [itr EXCEPT !.rs = <<>>, !.failed = TRUE]]

(***************************************************************************)
(* set and done as calls: the heap and the callback record they leave.     *)
(***************************************************************************)
\* faulty variant: the rate is stored before it is checked
SetCall_mut(h, pl, i, rate, extra) ==
    IF RateOk(rate)
    THEN LET h1 == SetRate(h, i, rate)
         IN  [err |-> "none", h |-> h1, pl |-> _notify(pl, h1[i], h1[i].rate, extra)]
    ELSE [err |-> "AssertionError", h |-> SetRate(h, i, rate), pl |-> pl]

SetCall(h, pl, i, rate, extra) ==
    IF RateOk(rate)
    THEN LET h1 == SetRate(h, i, rate)
         IN  [err |-> "none", h |-> h1, pl |-> _notify(pl, h1[i], h1[i].rate, extra)]
    ELSE [err |-> "AssertionError", h |-> h, pl |-> pl]

DoneCall(h, pl, i, extra) == SetCall(h, pl, i, DoneRate, extra)

(***************************************************************************)
(* The generator seq returns, and the scope of a with statement.           *)
(***************************************************************************)
NoGen == [live |-> FALSE, started |-> FALSE, finished |-> FALSE, owner |-> 0,
          items |-> <<>>, extra |-> NoExtra, sp |-> NoIter, cur |-> 0, idx |-> 0,
          trace |-> <<>>, touched |-> FALSE]

NoScope == [active |-> FALSE, rng |-> 0, ret |-> 0]

\* What the most recent call was, the error it raised and the range it returned.
Call(op, err, ret) == [op |-> op, err |-> err, ret |-> ret]

PairEvent(e, r) ==
    [kind |-> "pair", item |-> e, rng |-> r, func |-> None, pos |-> Zero, extra |-> NoExtra]

CallEvent(c) ==
    [kind |-> "call", item |-> "", rng |-> 0, func |-> c.func, pos |-> c.pos, extra |-> c.extra]

Yielded(g) == {g.sp.out[j] : j \in 1..Len(g.sp.out)}

\* Whether the consumer itself called set or done on a range seq yielded.
Touch(g, i) ==
    IF g.live /\ i \in Yielded(g) THEN [g EXCEPT !.touched = TRUE] ELSE g

\* faulty variant: __exit__ returns a true value
ExitSuppresses_mut == TRUE

\* __exit__ returns None: the error of the body is not suppressed
ExitSuppresses == FALSE

Init ==
    /\ heap = <<>>
    /\ pool = <<>>
    /\ it = NoIter
    /\ gen = NoGen
    /\ scope = NoScope
    /\ last = Call("", "none", 0)

\* The caller constructs one root range.
__init__(min, max, func) ==
    /\ heap = <<>>
    /\ heap' = IF InitOk(min, max) THEN Append(heap, ProgressHelper(min, max, func, 0))
                                   ELSE heap
    /\ last' = IF InitOk(min, max)
               THEN Call("__init__", "none", Len(heap) + 1)
               ELSE Call("__init__", "AssertionError", 0)
    /\ pool' = <<>>
    /\ UNCHANGED <<it, gen, scope>>

null ==
    /\ heap = <<>>
    /\ heap' = Append(heap, ProgressHelper(R(0), R(100), None, 0))
    /\ last' = Call("null", "none", Len(heap) + 1)
    /\ pool' = <<>>
    /\ UNCHANGED <<it, gen, scope>>

set(i, rate, extra) ==
    LET c == SetCall(heap, <<>>, i, rate, extra)
    IN  /\ heap' = c.h
        /\ pool' = c.pl
        /\ gen' = Touch(gen, i)
        /\ last' = Call("set", c.err, 0)
        /\ UNCHANGED <<it, scope>>

done(i, extra) ==
    LET c == DoneCall(heap, <<>>, i, extra)
    IN  /\ heap' = c.h
        /\ pool' = c.pl
        /\ gen' = Touch(gen, i)
        /\ last' = Call("done", c.err, 0)
        /\ UNCHANGED <<it, scope>>

sub(i, low, high) ==
    LET r == SubResult(heap, i, low, high)
    IN  /\ Len(heap) < MaxRanges
        /\ heap' = r.h
        /\ last' = Call("sub", r.err, r.ret)
        /\ pool' = <<>>
        /\ UNCHANGED <<it, gen, scope>>

split(i, v) ==
    /\ it' = IF SplitErr(v) = "none" THEN SplitIter(i, v) ELSE it
    /\ last' = Call("split", SplitErr(v), 0)
    /\ pool' = <<>>
    /\ UNCHANGED <<heap, gen, scope>>

\* next() on the iterator split returned
split_next ==
    LET s == IterStep(heap, it)
    IN  /\ it.live
        /\ Len(s.h) <= MaxRanges
        /\ heap' = s.h
        /\ it' = s.itr
        /\ last' = Call("split_next", IF s.res = "yield" THEN "none" ELSE s.res, s.ret)
        /\ pool' = <<>>
        /\ UNCHANGED <<gen, scope>>

seq(i, items, extra) ==
    /\ gen' = [NoGen EXCEPT !.live = TRUE, !.owner = i, !.items = items, !.extra = extra]
    /\ last' = Call("seq", "none", 0)
    /\ pool' = <<>>
    /\ UNCHANGED <<heap, it, scope>>

\* faulty variant: done() is called without the arguments given to seq
SeqDone_noargs(h, g) ==
    IF g.started THEN DoneCall(h, <<>>, g.cur, NoExtra)
                 ELSE [err |-> "none", h |-> h, pl |-> <<>>]

\* faulty variant: done() is called on the range seq was called on
SeqDone_self(h, g) ==
    IF g.started THEN DoneCall(h, <<>>, g.owner, g.extra)
                 ELSE [err |-> "none", h |-> h, pl |-> <<>>]

\* The generator resuming after its yield: p.done(*args, **kwargs) on the
\* range it yielded; nothing on the first next().
SeqDone(h, g) ==
    IF g.started THEN DoneCall(h, <<>>, g.cur, g.extra)
                 ELSE [err |-> "none", h |-> h, pl |-> <<>>]

\* next() on the generator seq returned: from the start, or from the yield,
\* to the next yield or to the end.
seq_next ==
    LET d == SeqDone(heap, gen)
        v == IntV(Len(gen.items))
        serr == IF gen.started THEN "none" ELSE SplitErr(v)
        sp0 == IF gen.started THEN gen.sp ELSE SplitIter(gen.owner, v)
        calls == [j \in 1..Len(d.pl) |-> CallEvent(d.pl[j])]
        more == gen.idx < Len(gen.items)
        s == IterStep(d.h, sp0)
    IN  /\ gen.live /\ ~gen.finished
        /\ pool' = d.pl
        /\ IF serr # "none"
           THEN /\ heap' = d.h
                /\ gen' = [gen EXCEPT !.started = TRUE, !.finished = TRUE]
                /\ last' = Call("seq_next", serr, 0)
           ELSE IF more /\ s.res = "yield"
           THEN /\ Len(s.h) <= MaxRanges
                /\ heap' = s.h
                /\ gen' = [gen EXCEPT !.started = TRUE, !.sp = s.itr, !.cur = s.ret,
                                      !.idx = @ + 1,
                                      !.trace = @ \o calls \o
                                                <<PairEvent(gen.items[gen.idx + 1], s.ret)>>]
                /\ last' = Call("seq_next", "none", s.ret)
           ELSE IF more /\ s.res # "StopIteration"
           THEN /\ heap' = d.h
                /\ gen' = [gen EXCEPT !.started = TRUE, !.finished = TRUE, !.sp = s.itr,
                                      !.cur = 0, !.trace = @ \o calls]
                /\ last' = Call("seq_next", s.res, 0)
           ELSE /\ heap' = d.h
                /\ gen' = [gen EXCEPT !.started = TRUE, !.finished = TRUE, !.sp = sp0,
                                      !.cur = 0, !.trace = @ \o calls]
                /\ last' = Call("seq_next", "StopIteration", 0)
        /\ UNCHANGED <<it, scope>>

__enter__(i) ==
    /\ ~scope.active
    /\ scope' = [active |-> TRUE, rng |-> i, ret |-> i]
    /\ last' = Call("__enter__", "none", i)
    /\ pool' = <<>>
    /\ UNCHANGED <<heap, it, gen>>

\* the end of the with block; exc is the error the body raised, if any
__exit__(exc) ==
    LET c == DoneCall(heap, <<>>, scope.rng, NoExtra)
    IN  /\ scope.active
        /\ heap' = c.h
        /\ pool' = c.pl
        /\ gen' = Touch(gen, scope.rng)
        /\ scope' = NoScope
        /\ last' = Call("__exit__", IF ExitSuppresses THEN "none" ELSE exc, 0)
        /\ UNCHANGED it

(***************************************************************************)
(* The properties.                                                         *)
(***************************************************************************)
\* (max - min) * r + min, as the specification states the position
Linear(min, max, r) == RAdd(RMul(RSub(max, min), r), min)

\* The one invocation a set or done with rate r and arguments x makes on
\* range p, or none when p has no callback.
OneCall(p, r, x) ==
    IF p.func # None
    THEN <<[func |-> p.func, pos |-> Linear(p.min, p.max, r), extra |-> x]>>
    ELSE <<>>

\* C1: set(r, *extra) with 0 <= r <= 1 stores r as the rate and invokes the
\* callback exactly once with ((max - min) * r + min, *extra), or not at all
\* when the range has no callback; done(*extra) does what set(1.0, *extra) does.
C1_SetStoresAndNotifiesOnce ==
    [][\A i \in 1..Len(heap), x \in Extras :
          /\ \A r \in Rates :
                (last'.op = "set" /\ RLe(Zero, r) /\ RLe(r, One) /\ set(i, r, x)) =>
                    /\ last'.err = "none"
                    /\ heap'[i].rate = r
                    /\ pool' = OneCall(heap[i], r, x)
          /\ (last'.op = "done" /\ done(i, x)) =>
                /\ last'.err = "none"
                /\ heap'[i].rate = One
                /\ pool' = OneCall(heap[i], One, x)]_vars

\* test_set: set(0.5, 'a', msg='alpha') on [-100, 100] has just notified 0.0
C1_Witness ==
    /\ last.op = "set" /\ last.err = "none"
    /\ \E i \in 1..Len(heap) :
          /\ heap[i].min = R(-100) /\ heap[i].max = R(100)
          /\ heap[i].rate = Frac(1, 2)
          /\ pool = <<[func |-> "f", pos |-> R(0), extra |-> CHOOSE x \in Extras : x # NoExtra]>>

\* C5: entering a with block returns the range itself; leaving it, normally or
\* by an error, calls done() once (rate 1.0, one invocation at max without
\* extra arguments if there is a callback), and the body's error propagates.
C5_ScopeCompletesOnExit ==
    [][/\ \A i \in 1..Len(heap) : __enter__(i) => last'.ret = i /\ scope'.ret = i
       /\ \A exc \in {"none", "Error"} :
             __exit__(exc) =>
                 /\ heap'[scope.rng].rate = One
                 /\ pool' = IF heap[scope.rng].func # None
                            THEN <<[func |-> heap[scope.rng].func,
                                    pos |-> heap[scope.rng].max, extra |-> NoExtra]>>
                            ELSE <<>>
                 /\ last'.err = exc]_vars

\* a with block on a range with a callback was left by an error
C5_Witness ==
    /\ last.op = "__exit__" /\ last.err = "Error"
    /\ ~scope.active
    /\ Len(pool) = 1
    /\ \E i \in 1..Len(heap) : heap[i].rate = One /\ pool[1].pos = heap[i].max

\* C7: set(r) with r < 0 or r > 1 raises and changes nothing: the rate keeps
\* its value and the callback is not invoked; sub(low, high) with low >= high
\* or a bound outside [0, 1] raises, creates no range and changes nothing.
C7_RejectedCallsHaveNoEffect ==
    [][\A i \in 1..Len(heap) :
          /\ \A r \in Rates, x \in Extras :
                (/\ last'.op = "set"
                 /\ RLt(r, Zero) \/ RLt(One, r)
                 /\ set(i, r, x)) =>
                    /\ last'.err = "AssertionError"
                    /\ heap' = heap
                    /\ pool' = <<>>
          /\ \A lo \in Rates, hi \in Rates :
                (/\ last'.op = "sub"
                 /\ RLe(hi, lo) \/ RLt(lo, Zero) \/ RLt(One, hi)
                 /\ sub(i, lo, hi)) =>
                    /\ last'.err = "AssertionError"
                    /\ last'.ret = 0
                    /\ heap' = heap
                    /\ pool' = <<>>]_vars

\* a set was rejected on a range whose rate is 0.5
C7_Witness ==
    /\ last.op = "set" /\ last.err = "AssertionError"
    /\ \E i \in 1..Len(heap) : heap[i].rate = Frac(1, 2) /\ heap[i].func # None

RECURSIVE PrefixSum(_, _)
PrefixSum(w, j) == IF j = 0 THEN 0 ELSE PrefixSum(w, j - 1) + w[j]

Positive(w) == w # <<>> /\ \A j \in 1..Len(w) : w[j] > 0

\* C3: for positive weights w_0..w_k (split(n) is n ones) split yields k+1
\* ranges in order that partition the parent: the first starts at min, each
\* next one starts where the one before ends, range i ends at
\* min + (max - min) * (w_0 + ... + w_i) / (w_0 + ... + w_k), the last at max;
\* on [0, 100] the parts of split([1, 3, 1]) end at 20, 80 and 100.
C3_SplitPartitionsTheRange ==
    (it.live /\ Positive(it.w)) =>
        LET p == heap[it.owner]
            n == Len(it.out)
            k == Len(it.w)
        IN  /\ ~it.failed
            /\ n <= k
            /\ \A j \in 1..n :
                  /\ heap[it.out[j]].min =
                        IF j = 1 THEN p.min ELSE heap[it.out[j - 1]].max
                  /\ heap[it.out[j]].max =
                        Linear(p.min, p.max, Frac(PrefixSum(it.w, j), PrefixSum(it.w, k)))
            /\ IterDone(it) => n = k /\ heap[it.out[n]].max = p.max
            /\ (p.min = R(0) /\ p.max = R(100) /\ it.w = <<1, 3, 1>>) =>
                  \A j \in 1..n : heap[it.out[j]].max = R(<<20, 80, 100>>[j])

\* split([1, 3, 1]) on [0, 100] is exhausted and done() on the second part
\* has just notified 80
C3_Witness ==
    /\ it.live /\ IterDone(it) /\ it.w = <<1, 3, 1>> /\ Len(it.out) = 3
    /\ heap[it.owner].min = R(0) /\ heap[it.owner].max = R(100)
    /\ last.op = "done"
    /\ pool = <<[func |-> "f", pos |-> R(80), extra |-> NoExtra]>>
    /\ heap[it.out[2]].rate = One

BadSplitArg(v) ==
    IF v.isList THEN v.w = <<>> \/ \E j \in 1..Len(v.w) : v.w[j] <= 0
                ELSE v.n <= 0

\* C6: split raises a precondition violation when it is called, before any
\* sub-range is produced, for a count n <= 0, an empty weight list or a list
\* with a weight <= 0.
C6_SplitRejectsBadArguments ==
    [][\A i \in 1..Len(heap), v \in SplitArgs :
          split(i, v) /\ BadSplitArg(v) => last'.err = "AssertionError" /\ it' = it]_vars

SeqCalls(g) == SelectSeq(g.trace, LAMBDA e : e.kind = "call")

SeqExhausted(g) ==
    /\ g.live /\ g.finished /\ ~g.touched
    /\ Len(g.items) >= 1
    /\ heap[g.owner].func # None

\* C4 as stated: after a seq over k >= 1 items is iterated to the end, the
\* yielded ranges untouched by the consumer, the range seq was called on has
\* rate 1.0 and the callback was invoked k times at increasing positions.
C4_ParentCompleteAfterSeq ==
    SeqExhausted(gen) =>
        /\ heap[gen.owner].rate = One
        /\ Len(SeqCalls(gen)) = Len(gen.items)
        /\ \A n \in 1..(Len(SeqCalls(gen)) - 1) :
              RLt(SeqCalls(gen)[n].pos, SeqCalls(gen)[n + 1].pos)

\* C4 amended: the callback was invoked k times at strictly increasing
\* positions, the last one max, and every yielded range has rate 1.0; the range
\* seq was called on has rate 1.0 when k = 1, where it is the yielded range, and
\* for k >= 2 seq never changes it.
C4_SeqCompletesYieldedRanges ==
    /\ [](SeqExhausted(gen) =>
            /\ Len(SeqCalls(gen)) = Len(gen.items)
            /\ \A n \in 1..(Len(SeqCalls(gen)) - 1) :
                  RLt(SeqCalls(gen)[n].pos, SeqCalls(gen)[n + 1].pos)
            /\ SeqCalls(gen)[Len(gen.items)].pos = heap[gen.owner].max
            /\ \A i \in Yielded(gen) : heap[i].rate = One
            /\ Len(gen.items) = 1 => heap[gen.owner].rate = One)
    /\ [][(seq_next /\ Len(gen.items) >= 2) => heap'[gen.owner] = heap[gen.owner]]_vars

\* a seq over three items was iterated to the end and the range it was called
\* on still has rate 0
C4_Witness ==
    /\ SeqExhausted(gen)
    /\ Len(gen.items) = 3
    /\ heap[gen.owner].rate = Zero
    /\ \A i \in Yielded(gen) : heap[i].rate = One

Root(i) == heap[i].parent = 0

C9_RangesIndependent ==
    [][/\ Len(heap') >= Len(heap)
       /\ last'.op \in {"sub", "split", "split_next", "seq", "__init__", "null"} =>
             \A j \in 1..Len(heap) : heap'[j] = heap[j]
       /\ \A i \in 1..Len(heap) :
             (\/ last'.op = "done" /\ done(i, NoExtra)
              \/ last'.op = "set" /\ set(i, Frac(1, 2), NoExtra)) =>
                 /\ heap'[i] = [heap[i] EXCEPT !.rate = heap'[i].rate]
                 /\ \A j \in 1..Len(heap) : j # i => heap'[j] = heap[j]
       /\ (last'.op = "seq_next" /\ seq_next) =>
             \A j \in 1..Len(heap) :
                /\ heap'[j] = [heap[j] EXCEPT !.rate = heap'[j].rate]
                /\ j # gen.cur => heap'[j] = heap[j]]_vars

\* the root was set to 0.5 after a range at depth two was completed, and the
\* range between them is still at rate 0
C9_Witness ==
    /\ last.op = "set"
    /\ heap[1].rate = Frac(1, 2)
    /\ \E i \in 1..Len(heap) :
          /\ ~Root(i) /\ ~Root(heap[i].parent)
          /\ heap[i].rate = One
          /\ heap[heap[i].parent].rate = Zero

\* C10: every derived range lies inside the range it was derived from and
\* shares the callback of the root, and every position passed to the callback
\* lies inside the bounds of the root.
C10_DerivedRangesStayInside ==
    /\ \A i \in 1..Len(heap) :
          ~Root(i) =>
              /\ heap[i].parent \in 1..(i - 1)
              /\ RLe(heap[heap[i].parent].min, heap[i].min)
              /\ RLe(heap[i].max, heap[heap[i].parent].max)
              /\ RLe(heap[1].min, heap[i].min) /\ RLe(heap[i].max, heap[1].max)
              /\ heap[i].func = heap[1].func
    /\ \A n \in 1..Len(pool) :
          /\ pool[n].func = heap[1].func
          /\ RLe(heap[1].min, pool[n].pos)
          /\ RLe(pool[n].pos, heap[1].max)

\* a range at depth two of [-100, 100] has just notified a position that is
\* not an end of the root
C10_Witness ==
    /\ last.op = "done" /\ Len(pool) = 1
    /\ heap[1].min = R(-100)
    /\ pool[1].pos # heap[1].min /\ pool[1].pos # heap[1].max
    /\ \E i \in 1..Len(heap) :
          /\ ~Root(i) /\ ~Root(heap[i].parent)
          /\ pool[1].pos = heap[i].max

\* The calls of a caller that works with a range and its sub-ranges.
Next ==
    \/ \E e \in Ends, f \in Funcs : __init__(e[1], e[2], f)
    \/ null
    \/ \E i \in 1..Len(heap), r \in Rates, x \in Extras : set(i, r, x)
    \/ \E i \in 1..Len(heap), x \in Extras : done(i, x)
    \/ \E i \in 1..Len(heap), a \in SubArgs : Len(heap) < MaxSubs /\ sub(i, a[1], a[2])

Spec == Init /\ [][Next]_vars

\* The calls of a caller that uses ranges in with blocks, one at a time.
NextScope ==
    \/ \E e \in Ends, f \in Funcs : __init__(e[1], e[2], f)
    \/ null
    \/ \E i \in 1..Len(heap), r \in Rates : set(i, r, NoExtra)
    \/ \E i \in 1..Len(heap) : Len(heap) < MaxSubs /\ sub(i, Frac(1, 2), One)
    \/ \E i \in 1..Len(heap) : __enter__(i)
    \/ \E exc \in {"none", "Error"} : __exit__(exc)

SpecScope == Init /\ [][NextScope]_vars

\* The calls of a caller that splits one range, of the root or of a sub-range
\* of it, and completes the parts.
NextSplit ==
    \/ \E e \in Ends, f \in Funcs : __init__(e[1], e[2], f)
    \/ \E i \in 1..Len(heap) : Len(heap) < MaxSubs /\ sub(i, Frac(1, 2), One)
    \/ \E i \in 1..Len(heap) : done(i, NoExtra)
    \/ \E i \in 1..Len(heap), v \in SplitArgs : ~it.live /\ split(i, v)
    \/ split_next

SpecSplit == Init /\ [][NextSplit]_vars

\* The calls of a caller that iterates one seq.
NextSeq ==
    \/ \E e \in Ends, f \in Funcs : __init__(e[1], e[2], f)
    \/ \E i \in 1..Len(heap) : Len(heap) < MaxSubs /\ sub(i, Frac(1, 2), One)
    \/ \E i \in 1..Len(heap) : set(i, Frac(1, 2), NoExtra)
    \/ \E i \in 1..Len(heap), xs \in Items, x \in Extras : ~gen.live /\ seq(i, xs, x)
    \/ seq_next

SpecSeq == Init /\ [][NextSeq]_vars

\* Every way of deriving ranges, nested in each other, with valid arguments:
\* the caller derives sub-ranges, then splits a range, then iterates seq over
\* a range; at any time it completes a range or sets the root to 0.5.
NextTree ==
    \/ \E e \in Ends : __init__(e[1], e[2], "f")
    \/ \E i \in 1..Len(heap) : Root(i) /\ set(i, Frac(1, 2), NoExtra)
    \/ \E i \in 1..Len(heap) : done(i, NoExtra)
    \/ \E i \in 1..Len(heap), a \in TreeSubs :
          ~it.live /\ ~gen.live /\ Len(heap) < MaxSubs /\ sub(i, a[1], a[2])
    \/ \E i \in 1..Len(heap), v \in TreeSplits : ~it.live /\ ~gen.live /\ split(i, v)
    \/ split_next
    \/ \E i \in 1..Len(heap), xs \in TreeItems :
          ~gen.live /\ (it.live => IterDone(it)) /\ seq(i, xs, NoExtra)
    \/ seq_next

SpecTree == Init /\ [][NextTree]_vars

====
